---- MODULE Spec2Model ----
(***************************************************************************)
(* Heading-outline extractor: line reconstruction (extract.py), title      *)
(* detection and the per-document pipeline (runner.py), noise filter       *)
(* (features.py, utils.py), heading classifier (classify.py) and outline   *)
(* assembly (assemble.py).                                                 *)
(*                                                                         *)
(* Texts are TLA+ strings read character by character; the alphabet of the *)
(* model is ASCII, so Unicode normalisation (NFKC) leaves every text as it *)
(* is.  Lengths are integer points; font sizes are in tenths of a point.   *)
(* A Span keeps the fields the code reads: text, page, bbox, font_size,    *)
(* is_bold, is_italic, level (font_name and lang are never read).          *)
(* Python's None is the string "None" for level and "" for a regex prefix  *)
(* (a matched prefix is never empty).                                      *)
(***************************************************************************)
EXTENDS Integers, Sequences, FiniteSets, TLC

VARIABLES
    raw,        \* _merge_line_spans: the sorted runs consumed so far
    buf,        \* _merge_line_spans: the open buffer line
    merged,     \* _merge_line_spans: the flushed lines
    bufRuns,    \* history: the run texts that make up buf
    mergedRuns, \* history: the run texts that make up each flushed line
    step,       \* history: the last decision of the fold
    mpc,        \* _merge_line_spans: "start", "fold", "done", "idle"
    spans,      \* process: the Lines of the document
    page_cnt,   \* process: the physical page count
    title,      \* process: the detected title
    invite,     \* process: the invitation-flyer flag
    spans_flt,  \* process: the candidates kept by filter_spans
    headings_raw, \* process: the leveled heading Lines
    data,       \* process: the output record
    pc,         \* process: the statement the document is at
    spans_in,   \* history: the Lines as they were handed to filter_spans
    queue,      \* main: the documents still to process, in sorted order
    written     \* main: the output records written so far

mergeVars == <<raw, buf, merged, bufRuns, mergedRuns, step, mpc>>
procVars == <<spans, page_cnt, title, invite, spans_flt, headings_raw, data, pc,
              spans_in>>
mainVars == <<queue, written>>
vars == <<mergeVars, procVars, mainVars>>

---------------------------------------------------------------------------
(* Characters and scanning                                                 *)

Digit == {"0", "1", "2", "3", "4", "5", "6", "7", "8", "9"}
Upper == {"A", "B", "C", "D", "E", "F", "G", "H", "I", "J", "K", "L", "M",
          "N", "O", "P", "Q", "R", "S", "T", "U", "V", "W", "X", "Y", "Z"}
Lower == {"a", "b", "c", "d", "e", "f", "g", "h", "i", "j", "k", "l", "m",
          "n", "o", "p", "q", "r", "s", "t", "u", "v", "w", "x", "y", "z"}
Alpha == Upper \cup Lower
WordCh == Alpha \cup Digit \cup {"_"}
WS == {" ", "\t", "\n"}

Abs(n) == IF n < 0 THEN -n ELSE n
Max2(a, b) == IF a >= b THEN a ELSE b
Min2(a, b) == IF a <= b THEN a ELSE b

\* the character of s at position i (1-based), "" outside s
Ch(s, i) == IF i >= 1 /\ i <= Len(s) THEN SubSeq(s, i, i) ELSE ""

\* s[i:] of Python, with i 1-based
From(s, i) == IF i > Len(s) THEN "" ELSE SubSeq(s, i, Len(s))

\* the first position at or after i whose character is outside cls
RECURSIVE RunEnd(_, _, _)
RunEnd(s, i, cls) ==
    IF i <= Len(s) /\ Ch(s, i) \in cls THEN RunEnd(s, i + 1, cls) ELSE i

\* the last position at or before i whose character is outside cls (0: none)
RECURSIVE RunStart(_, _, _)
RunStart(s, i, cls) ==
    IF i >= 1 /\ Ch(s, i) \in cls THEN RunStart(s, i - 1, cls) ELSE i

\* str.strip(chars)
StripSet(s, cls) ==
    LET a == RunEnd(s, 1, cls)
        b == RunStart(s, Len(s), cls)
    IN  IF a > b THEN "" ELSE SubSeq(s, a, b)

Strip(s) == StripSet(s, WS)
LStrip(s) == From(s, RunEnd(s, 1, WS))

\* the (\.\d+)* groups from position j on; n counts the groups matched
RECURSIVE DotGroups(_, _, _)
DotGroups(s, j, n) ==
    IF Ch(s, j) = "." /\ RunEnd(s, j + 1, Digit) > j + 1
    THEN DotGroups(s, RunEnd(s, j + 1, Digit), n + 1)
    ELSE [end |-> j, n |-> n]

\* \d+(\.\d+)+ at position i: the position after the match, 0 when none
DottedEnd(s, i) ==
    LET a == RunEnd(s, i, Digit)
        g == DotGroups(s, a, 0)
    IN  IF a = i \/ g.n = 0 THEN 0 ELSE g.end

UpperSeq == "ABCDEFGHIJKLMNOPQRSTUVWXYZ"
LowerSeq == "abcdefghijklmnopqrstuvwxyz"

\* c.lower() for one character
LowerCh(c) ==
    IF c \in Upper
    THEN Ch(LowerSeq, CHOOSE i \in 1..Len(UpperSeq) : Ch(UpperSeq, i) = c)
    ELSE c

\* str.lower()
RECURSIVE LowerStr(_)
LowerStr(s) ==
    IF s = "" THEN "" ELSE LowerCh(Ch(s, 1)) \o LowerStr(From(s, 2))

\* the first position at or after i that holds white space (Len(s) + 1: none)
RECURSIVE TokenEnd(_, _)
TokenEnd(s, i) ==
    IF i <= Len(s) /\ Ch(s, i) \notin WS THEN TokenEnd(s, i + 1) ELSE i

\* str.split(): the maximal runs of non-white-space characters, from i on
RECURSIVE SplitFrom(_, _)
SplitFrom(s, i) ==
    LET a == RunEnd(s, i, WS)
    IN  IF a > Len(s)
        THEN <<>>
        ELSE <<SubSeq(s, a, TokenEnd(s, a) - 1)>> \o SplitFrom(s, TokenEnd(s, a))

Split(s) == SplitFrom(s, 1)

\* " ".join(parts)
RECURSIVE Join(_)
Join(parts) ==
    IF parts = <<>> THEN ""
    ELSE IF Len(parts) = 1 THEN parts[1]
    ELSE parts[1] \o " " \o Join(Tail(parts))

StartsWith(s, pre) == Len(pre) <= Len(s) /\ SubSeq(s, 1, Len(pre)) = pre
EndsWith(s, suf) ==
    Len(suf) <= Len(s) /\ SubSeq(s, Len(s) - Len(suf) + 1, Len(s)) = suf

\* sub in s
Contains(s, sub) ==
    \E i \in 1..(Len(s) - Len(sub) + 1) : SubSeq(s, i, i + Len(sub) - 1) = sub

\* the number of characters of s that are in cls
RECURSIVE CountIn(_, _)
CountIn(s, cls) ==
    IF s = "" THEN 0
    ELSE (IF Ch(s, 1) \in cls THEN 1 ELSE 0) + CountIn(From(s, 2), cls)

\* \b at position i: exactly one of the characters before and at i is a word
\* character
WordBoundary(s, i) == (Ch(s, i - 1) \in WordCh) # (Ch(s, i) \in WordCh)

\* lexicographic order on tuples of integers of one length
RECURSIVE LexLess(_, _)
LexLess(a, b) ==
    IF a = <<>> THEN FALSE
    ELSE IF a[1] # b[1] THEN a[1] < b[1]
    ELSE LexLess(Tail(a), Tail(b))

\* list.sort(key=...) on <<key, item>> pairs; the sort is stable: x goes after
\* every pair whose key is not after its own
RECURSIVE InsertKeyed(_, _)
InsertKeyed(sorted, x) ==
    IF sorted = <<>>
    THEN <<x>>
    ELSE IF LexLess(x[1], sorted[1][1])
         THEN <<x>> \o sorted
         ELSE <<sorted[1]>> \o InsertKeyed(Tail(sorted), x)

RECURSIVE SortKeyed(_)
SortKeyed(pairs) ==
    IF pairs = <<>>
    THEN <<>>
    ELSE InsertKeyed(SortKeyed(SubSeq(pairs, 1, Len(pairs) - 1)), pairs[Len(pairs)])

Items(pairs) == [k \in 1..Len(pairs) |-> pairs[k][2]]

\* [x for x in seq if keep[x]], keep a sequence of booleans
RECURSIVE SelectKept(_, _)
SelectKept(seq, keep) ==
    IF seq = <<>> THEN <<>>
    ELSE (IF keep[1] THEN <<seq[1]>> ELSE <<>>) \o SelectKept(Tail(seq), Tail(keep))

RECURSIVE SumSeq(_)
SumSeq(ns) == IF ns = <<>> THEN 0 ELSE ns[1] + SumSeq(Tail(ns))

---------------------------------------------------------------------------
(* extract.py: Span, the two section-number patterns, _merge_line_spans    *)

NoLevel == "None"

Span(text, page, bbox, font_size) ==
    [text |-> text, page |-> page, bbox |-> bbox, font_size |-> font_size,
     is_bold |-> FALSE, is_italic |-> FALSE, level |-> NoLevel]

\* bbox = (x0, y0, x1, y1); Python's bbox[0..3] are bbox[1..4] here
X0(s) == s.bbox[1]
Y0(s) == s.bbox[2]
X1(s) == s.bbox[3]
Y1(s) == s.bbox[4]

\* SECTION_NUM_RE.fullmatch(t): ^\d+(\.\d+)+\s?$
SECTION_NUM_RE(t) ==
    LET e == DottedEnd(t, 1)
    IN  /\ e > 0
        /\ \/ e = Len(t) + 1
           \/ e = Len(t) /\ Ch(t, e) \in WS

\* NUM_HDR_RE.match(t): ^\d+(\.\d+)+\s ; the position after the match, 0: none
NUM_HDR_RE(t) ==
    LET e == DottedEnd(t, 1)
    IN  IF e > 0 /\ Ch(t, e) \in WS THEN e + 1 ELSE 0

\* m.group(0).strip() if m else None
sec_prefix(s) ==
    LET e == NUM_HDR_RE(s.text)
    IN  IF e = 0 THEN "" ELSE Strip(SubSeq(s.text, 1, e - 1))

\* mutant: the baseline test also asks for the same font size
merge_decision_same_font(b, nxt) ==
    LET same_baseline == Abs(Y0(nxt) - Y0(b)) < 2
        gap_ok        == X0(nxt) - X1(b) < 40
        same_font     == Abs(nxt.font_size - b.font_size) < 6
        vert_ok       == /\ 0 < Y0(nxt) - Y0(b)
                         /\ 100 * (Y0(nxt) - Y0(b)) <= 18 * b.font_size
        diff_sec      == /\ sec_prefix(b) # ""
                         /\ sec_prefix(nxt) # ""
                         /\ sec_prefix(b) # sec_prefix(nxt)
    IN  IF SECTION_NUM_RE(Strip(b.text)) /\ sec_prefix(nxt) = ""
        THEN TRUE
        ELSE IF diff_sec
             THEN FALSE
             ELSE same_font /\ ((same_baseline /\ gap_ok) \/ vert_ok)

\* the value of `merge` for a run on the buffer's page
merge_decision(b, nxt) ==
    LET same_baseline == Abs(Y0(nxt) - Y0(b)) < 2
        gap_ok        == X0(nxt) - X1(b) < 40
        same_font     == Abs(nxt.font_size - b.font_size) < 6
        vert_ok       == /\ 0 < Y0(nxt) - Y0(b)
                         /\ 100 * (Y0(nxt) - Y0(b)) <= 18 * b.font_size
        diff_sec      == /\ sec_prefix(b) # ""
                         /\ sec_prefix(nxt) # ""
                         /\ sec_prefix(b) # sec_prefix(nxt)
    IN  IF SECTION_NUM_RE(Strip(b.text)) /\ sec_prefix(nxt) = ""
        THEN TRUE
        ELSE IF diff_sec
             THEN FALSE
             ELSE (same_baseline /\ gap_ok) \/ (same_font /\ vert_ok)

\* buf after nxt is appended to it
merge_into(b, nxt) ==
    [b EXCEPT !.text = b.text \o " " \o nxt.text,
              !.bbox = <<X0(b), Y0(b), X1(nxt), Max2(Y1(b), Y1(nxt))>>]

\* one iteration of `for nxt in raw[1:]` on the pair (merged, buf)
fold_step(m, b, nxt) ==
    IF nxt.page # b.page
    THEN [merged |-> Append(m, b), buf |-> nxt, kind |-> "page"]
    ELSE IF merge_decision(b, nxt)
         THEN [merged |-> m, buf |-> merge_into(b, nxt), kind |-> "merge"]
         ELSE [merged |-> Append(m, b), buf |-> nxt, kind |-> "flush"]

\* the whole fold: _merge_line_spans(rs)
RECURSIVE fold_from(_, _, _, _)
fold_from(rs, i, m, b) ==
    IF i > Len(rs)
    THEN Append(m, b)
    ELSE LET r == fold_step(m, b, rs[i])
         IN  fold_from(rs, i + 1, r.merged, r.buf)

_merge_line_spans(rs) ==
    IF rs = <<>> THEN <<>> ELSE fold_from(rs, 2, <<>>, rs[1])

\* raw.sort(key=lambda s: (s.page, s.bbox[1], s.bbox[0])): a before-or-equal b
SortKeyLeq(a, b) ==
    \/ a.page < b.page
    \/ a.page = b.page /\ Y0(a) < Y0(b)
    \/ a.page = b.page /\ Y0(a) = Y0(b) /\ X0(a) <= X0(b)

---------------------------------------------------------------------------
(* The fold of _merge_line_spans, one run at a time                        *)

MaxRuns == 3

RunTexts == {"2.1", "2.1 Scope", "3.1 Methods", "Intro"}
RunSizes == {100, 120}
\* <<page, x0, y0, x1>>: a first run, one on its baseline after a wide gap, one
\* a point lower, a wrapped line 20pt lower, one on the next page
RunPlaces == {<<1, 0, 100, 50>>, <<1, 100, 100, 150>>, <<1, 0, 101, 50>>,
              <<1, 0, 120, 50>>, <<2, 0, 100, 50>>}

Runs ==
    { Span(t, p[1], <<p[2], p[3], p[4], p[3] + f \div 10>>, f) :
        t \in RunTexts, p \in RunPlaces, f \in RunSizes }

NoSpan == Span("", 0, <<0, 0, 0, 0>>, 0)
NoStep == [kind |-> "none", buf |-> NoSpan, nxt |-> NoSpan]

NoData == [title |-> "", outline |-> <<>>]

\* the variables of process, at rest
ProcIdle ==
    /\ spans = <<>>
    /\ page_cnt = 0
    /\ title = ""
    /\ invite = FALSE
    /\ spans_flt = <<>>
    /\ headings_raw = <<>>
    /\ data = NoData
    /\ pc = "idle"
    /\ spans_in = <<>>
    /\ queue = <<>>
    /\ written = <<>>

MergeInit ==
    /\ ProcIdle
    /\ raw = <<>>
    /\ buf = NoSpan
    /\ merged = <<>>
    /\ bufRuns = <<>>
    /\ mergedRuns = <<>>
    /\ step = NoStep
    /\ mpc = "start"

\* if not raw: return []
MergeEmpty ==
    /\ mpc = "start"
    /\ mpc' = "done"
    /\ UNCHANGED <<raw, buf, merged, bufRuns, mergedRuns, step>>
    /\ UNCHANGED <<procVars, mainVars>>

\* merged, buf = [], raw[0]
MergeFirst ==
    /\ mpc = "start"
    /\ \E r \in Runs :
        /\ raw' = <<r>>
        /\ buf' = r
        /\ bufRuns' = <<r.text>>
    /\ mpc' = "fold"
    /\ UNCHANGED <<merged, mergedRuns, step>>
    /\ UNCHANGED <<procVars, mainVars>>

\* one iteration of the loop, on the next run of the sorted input
MergeFold ==
    /\ mpc = "fold"
    /\ Len(raw) < MaxRuns
    /\ \E nxt \in Runs :
        /\ SortKeyLeq(raw[Len(raw)], nxt)
        /\ LET r == fold_step(merged, buf, nxt)
           IN  /\ raw' = Append(raw, nxt)
               /\ merged' = r.merged
               /\ buf' = r.buf
               /\ step' = [kind |-> r.kind, buf |-> buf, nxt |-> nxt]
               /\ IF r.kind = "merge"
                  THEN /\ bufRuns' = Append(bufRuns, nxt.text)
                       /\ mergedRuns' = mergedRuns
                  ELSE /\ bufRuns' = <<nxt.text>>
                       /\ mergedRuns' = Append(mergedRuns, bufRuns)
    /\ mpc' = "fold"
    /\ UNCHANGED <<procVars, mainVars>>

\* merged.append(buf); return merged
MergeReturn ==
    /\ mpc = "fold"
    /\ merged' = Append(merged, buf)
    /\ mergedRuns' = Append(mergedRuns, bufRuns)
    /\ mpc' = "done"
    /\ UNCHANGED <<raw, buf, bufRuns, step>>
    /\ UNCHANGED <<procVars, mainVars>>

MergeNext == MergeEmpty \/ MergeFirst \/ MergeFold \/ MergeReturn

SpecMerge == MergeInit /\ [][MergeNext]_vars

\* the numeric section prefix a run carries: \d+(\.\d+)+ at its start, followed
\* by white space (NUM_HDR_RE) or by the end of the text (SECTION_NUM_RE)
RunPrefix(t) ==
    LET e == DottedEnd(t, 1)
    IN  IF e > 0 /\ (e = Len(t) + 1 \/ Ch(t, e) \in WS)
        THEN SubSeq(t, 1, e - 1)
        ELSE ""

MixedPrefixes(texts) ==
    \E i, j \in 1..Len(texts) :
        /\ RunPrefix(texts[i]) # ""
        /\ RunPrefix(texts[j]) # ""
        /\ RunPrefix(texts[i]) # RunPrefix(texts[j])

\* C2: no Line returned by _merge_line_spans is made of two runs that carry
\* different numeric section prefixes.
C2_NeverFusesSections ==
    mpc = "done" => \A k \in 1..Len(mergedRuns) : ~MixedPrefixes(mergedRuns[k])

\* the last iteration met a run on the buffer's page, with its top edge less
\* than 2pt from the buffer's and a horizontal gap under 40pt
SameLineStep ==
    /\ step.kind \in {"merge", "flush"}
    /\ Abs(Y0(step.nxt) - Y0(step.buf)) < 2
    /\ X0(step.nxt) - X1(step.buf) < 40

StepAppended ==
    /\ step.kind = "merge"
    /\ buf.text = step.buf.text \o " " \o step.nxt.text
    /\ X1(buf) = X1(step.nxt)
    /\ Len(bufRuns) >= 2

StepPrefixesDiffer ==
    /\ sec_prefix(step.buf) # ""
    /\ sec_prefix(step.nxt) # ""
    /\ sec_prefix(step.buf) # sec_prefix(step.nxt)

\* C3 as stated: a run on the buffer's baseline with a gap under 40pt is always
\* appended to the buffer.
C3_SameLineAlwaysMerges ==
    (mpc = "fold" /\ SameLineStep) => StepAppended

\* C3 amended: a run on the buffer's baseline with a gap under 40pt is appended
\* to the buffer (texts joined by one space) unless the buffer and the run
\* start with different numeric section prefixes, in which case it is flushed.
C3_SameLineMergesUnlessSections ==
    (mpc = "fold" /\ SameLineStep) =>
        IF StepPrefixesDiffer THEN step.kind = "flush" ELSE StepAppended

\* a run was appended on the baseline test alone: the font sizes differ, so
\* the wrapped-line test does not apply, and the buffer is no bare number
C3_Witness ==
    /\ mpc = "fold"
    /\ SameLineStep
    /\ ~StepPrefixesDiffer
    /\ step.nxt.font_size # step.buf.font_size
    /\ ~SECTION_NUM_RE(Strip(step.buf.text))
    /\ StepAppended

---------------------------------------------------------------------------
(* utils.py: looks_like_date; runner.py: the title helpers and detect_title *)

\* DATE_RE at position i: \b\d{1,2}\s+[A-Z]{3,}\s+\d{4}\b
DateAt(s, i) ==
    LET a == RunEnd(s, i, Digit)
        b == RunEnd(s, a, WS)
        c == RunEnd(s, b, Upper)
        d == RunEnd(s, c, WS)
    IN  /\ Ch(s, i) \in Digit
        /\ WordBoundary(s, i)
        /\ a - i \in {1, 2}
        /\ b > a
        /\ c - b >= 3
        /\ d > c
        /\ RunEnd(s, d, Digit) - d >= 4
        /\ WordBoundary(s, d + 4)

\* bool(DATE_RE.search(s))
looks_like_date(s) == \E i \in 1..Len(s) : DateAt(s, i)

\* NUM_FIELD.search(txt): \b\d+\.
NUM_FIELD(txt) ==
    \E i \in 1..Len(txt) :
        /\ Ch(txt, i) \in Digit
        /\ WordBoundary(txt, i)
        /\ Ch(txt, RunEnd(txt, i, Digit)) = "."

\* CHAR_STUT at position i, (\w)\s+\1\w? : the position after the match, 0: none
CharStutEnd(s, i) ==
    LET a == RunEnd(s, i + 1, WS)
    IN  IF Ch(s, i) \in WordCh /\ a > i + 1 /\ Ch(s, a) = Ch(s, i)
        THEN IF Ch(s, a + 1) \in WordCh THEN a + 2 ELSE a + 1
        ELSE 0

\* CHAR_STUT.sub(r"\1", s), from position i on
RECURSIVE CharStutSub(_, _)
CharStutSub(s, i) ==
    IF i > Len(s) THEN ""
    ELSE IF CharStutEnd(s, i) > 0
         THEN Ch(s, i) \o CharStutSub(s, CharStutEnd(s, i))
         ELSE Ch(s, i) \o CharStutSub(s, i + 1)

\* the repeats (\s+\1\b)+ of the word w after position e (re.I): the position
\* after the last repeat, e itself when there is none
RECURSIVE WordRepeatsEnd(_, _, _)
WordRepeatsEnd(s, e, w) ==
    LET a == RunEnd(s, e, WS)
        z == a + Len(w)
    IN  IF /\ a > e
           /\ z - 1 <= Len(s)
           /\ LowerStr(SubSeq(s, a, z - 1)) = LowerStr(w)
           /\ WordBoundary(s, z)
        THEN WordRepeatsEnd(s, z, w)
        ELSE e

\* WORD_DUP at position i, \b(\w{2,})(\s+\1\b)+ : the position after the match,
\* 0: none
WordDupEnd(s, i) ==
    LET e == RunEnd(s, i, WordCh)
        r == WordRepeatsEnd(s, e, SubSeq(s, i, e - 1))
    IN  IF Ch(s, i) \in WordCh /\ WordBoundary(s, i) /\ e - i >= 2 /\ r > e
        THEN r
        ELSE 0

\* WORD_DUP.sub(r"\1", s), from position i on
RECURSIVE WordDupSub(_, _)
WordDupSub(s, i) ==
    IF i > Len(s) THEN ""
    ELSE IF WordDupEnd(s, i) > 0
         THEN SubSeq(s, i, RunEnd(s, i, WordCh) - 1) \o WordDupSub(s, WordDupEnd(s, i))
         ELSE Ch(s, i) \o WordDupSub(s, i + 1)

\* WS_COLLAPSE.sub(" ", s), \s{2,}, from position i on
RECURSIVE WsCollapseSub(_, _)
WsCollapseSub(s, i) ==
    IF i > Len(s) THEN ""
    ELSE IF RunEnd(s, i, WS) >= i + 2
         THEN " " \o WsCollapseSub(s, RunEnd(s, i, WS))
         ELSE Ch(s, i) \o WsCollapseSub(s, i + 1)

\* the three substitutions, repeated until the text stops changing
RECURSIVE _scrub_line(_)
_scrub_line(text) ==
    LET t == WsCollapseSub(WordDupSub(CharStutSub(text, 1), 1), 1)
    IN  IF t = text THEN Strip(text) ELSE _scrub_line(t)

\* the tokens of toks kept by _dedup_tokens, seen being the set of lowered
\* tokens kept so far
RECURSIVE DedupFrom(_, _)
DedupFrom(toks, seen) ==
    IF toks = <<>> THEN <<>>
    ELSE IF LowerStr(toks[1]) \notin seen /\ Len(toks[1]) > 1
         THEN <<toks[1]>> \o DedupFrom(Tail(toks), seen \cup {LowerStr(toks[1])})
         ELSE DedupFrom(Tail(toks), seen)

\* the tokens of every line, in order
RECURSIVE AllTokens(_)
AllTokens(lines) ==
    IF lines = <<>> THEN <<>> ELSE Split(lines[1]) \o AllTokens(Tail(lines))

_dedup_tokens(lines) == Join(DedupFrom(AllTokens(lines), {}))

\* the first alphabetic character of w, "" when it has none
RECURSIVE FirstAlpha(_)
FirstAlpha(w) ==
    IF w = "" THEN ""
    ELSE IF Ch(w, 1) \in Alpha THEN Ch(w, 1) ELSE FirstAlpha(From(w, 2))

_is_titlecase_like(s) ==
    LET txt   == Strip(s)
        words == Split(txt)
        alpha == CountIn(txt, Alpha)
        starts_upper ==
            Cardinality({k \in 1..Len(words) : FirstAlpha(words[k]) \in Upper})
    IN  IF txt = "" THEN FALSE
        ELSE IF EndsWith(txt, ".") THEN FALSE
        ELSE IF words = <<>> THEN FALSE
        ELSE IF alpha > 0 /\ 100 * CountIn(txt, Upper) >= 85 * alpha THEN TRUE
        ELSE 100 * starts_upper >= 60 * Len(words)

_FORM_TOKENS ==
    {"name", "designation", "date", "service", "pay", "si", "npa", "hometown",
     "home", "town", "wife", "husband", "whether", "entitled", "block", "place",
     "amount", "rs", "s.no", "sno", "age", "relationship", "fare", "bus", "rail",
     "ticket", "advance"}

\* str(i) + "." for i in range(1, 21)
EnumPrefixes ==
    {"1.", "2.", "3.", "4.", "5.", "6.", "7.", "8.", "9.", "10.", "11.", "12.",
     "13.", "14.", "15.", "16.", "17.", "18.", "19.", "20."}

_looks_like_form_line(s) ==
    LET low == LowerStr(s)
    IN  \/ EndsWith(low, ":")
        \/ \E tok \in _FORM_TOKENS : Contains(low, tok)
        \/ \E pre \in EnumPrefixes : StartsWith(low, pre)

TOP_Y_LIMIT == 520
PAGE_HEIGHT == 792
GAP_MAX == 240

\* sorted(xs, key=lambda x: x.bbox[1])
SortByTop(xs) == Items(SortKeyed([k \in 1..Len(xs) |-> <<<<Y0(xs[k])>>, xs[k]>>]))

_collect_cover_band(sps, y_limit) ==
    LET band  == SelectKept(sps, [k \in 1..Len(sps) |->
                                    sps[k].page = 1 /\ Y0(sps[k]) < y_limit])
        whole == SelectKept(sps, [k \in 1..Len(sps) |-> sps[k].page = 1])
    IN  IF band # <<>> THEN SortByTop(band) ELSE SortByTop(whole)

MaxOf(ns) == CHOOSE n \in ns : \A m \in ns : m <= n

\* step (1): the leading lines of p1 whose size is within 0.5 of max_sz
RECURSIVE TitleLead(_, _)
TitleLead(p1, max_sz) ==
    IF p1 = <<>> THEN <<>>
    ELSE IF Abs(p1[1].font_size - max_sz) < 5
         THEN <<_scrub_line(p1[1].text)>> \o TitleLead(Tail(p1), max_sz)
         ELSE <<>>

\* mutant: the subtitle test without its lower bound on the word count
subtitle_ok_any_length(s, max_sz) ==
    LET txt == Strip(s.text)
    IN  /\ 2 * s.font_size >= max_sz
        /\ ~NUM_FIELD(txt)
        /\ ~looks_like_date(txt)
        /\ _is_titlecase_like(txt)
        /\ ~_looks_like_form_line(txt)
        /\ Len(Split(txt)) <= 30

\* the condition of step (2) on one line
subtitle_ok(s, max_sz) ==
    LET txt == Strip(s.text)
    IN  /\ 2 * s.font_size >= max_sz
        /\ ~NUM_FIELD(txt)
        /\ ~looks_like_date(txt)
        /\ _is_titlecase_like(txt)
        /\ ~_looks_like_form_line(txt)
        /\ 4 <= Len(Split(txt))
        /\ Len(Split(txt)) <= 30

\* step (2): the subtitles taken from rest, `added` already taken
RECURSIVE Subtitles(_, _, _, _)
Subtitles(rest, base_y, max_sz, added) ==
    IF rest = <<>> THEN <<>>
    ELSE IF Y0(rest[1]) - base_y > GAP_MAX \/ added = 2 THEN <<>>
    ELSE IF subtitle_ok(rest[1], max_sz)
         THEN <<_scrub_line(Strip(rest[1].text))>>
                  \o Subtitles(Tail(rest), base_y, max_sz, added + 1)
         ELSE IF 100 * rest[1].font_size < 45 * max_sz
              THEN <<>>
              ELSE Subtitles(Tail(rest), base_y, max_sz, added)

detect_title(sps) ==
    LET p1     == _collect_cover_band(sps, TOP_Y_LIMIT)
        max_sz == MaxOf({p1[k].font_size : k \in 1..Len(p1)})
        lead   == TitleLead(p1, max_sz)
        title_raw ==
            lead \o Subtitles(SubSeq(p1, Len(lead) + 1, Len(p1)), Y0(p1[1]), max_sz, 0)
        clean  == Strip(_dedup_tokens(title_raw))
    IN  IF p1 = <<>> THEN ""
        ELSE IF Len(clean) <= 8 THEN Strip(Join(title_raw))
        ELSE clean

INVITE_KEYS == {"for:", "date:", "time:", "rsvp:", "address:"}

_is_invite_form(sps) ==
    LET hits == Cardinality({k \in 1..Len(sps) :
                    /\ sps[k].page = 1
                    /\ \E key \in INVITE_KEYS :
                          StartsWith(LowerStr(Strip(sps[k].text)), key)})
    IN  hits >= 2

\* process: title = detect_title(spans); the invitation flyer override of it
DetectTitle ==
    /\ pc = "title"
    /\ invite' = (page_cnt = 1 /\ _is_invite_form(spans))
    /\ title' = IF invite' THEN "" ELSE detect_title(spans)
    /\ pc' = "filter"
    /\ UNCHANGED <<spans, page_cnt, spans_flt, headings_raw, data, spans_in>>
    /\ UNCHANGED <<mergeVars, mainVars>>

---------------------------------------------------------------------------
(* utils.py: norm, build_header_footer_stopset; features.py: filter_spans  *)

\* WS_RE.sub(" ", s), \s+, from position i on
RECURSIVE WsRunsSub(_, _)
WsRunsSub(s, i) ==
    IF i > Len(s) THEN ""
    ELSE IF Ch(s, i) \in WS
         THEN " " \o WsRunsSub(s, RunEnd(s, i, WS))
         ELSE Ch(s, i) \o WsRunsSub(s, i + 1)

\* the ASCII characters of the punctuation trimmed by norm
NormTrim == {"-", ":", ";", ",", "."}

norm(text) == StripSet(LowerStr(Strip(WsRunsSub(text, 1))), NormTrim)

\* cutoff = int(page_count * ratio), ratio = 0.4
StopCutoff(page_count) == (4 * page_count) \div 10

build_header_footer_stopset(lines, page_count) ==
    LET cutoff == StopCutoff(page_count)
        freq(t) == Cardinality({k \in 1..Len(lines) : lines[k] = t})
    IN  {lines[k] : k \in {j \in 1..Len(lines) :
                              freq(lines[j]) >= cutoff /\ lines[j] # ""}}

looks_like_dot_leader(s) == Contains(s, "....")

\* NUM_ONLY_RE.fullmatch(t): ^\d+(\.\d+)?$
NUM_ONLY_RE(t) ==
    LET a == RunEnd(t, 1, Digit)
        b == RunEnd(t, a + 1, Digit)
    IN  /\ a > 1
        /\ \/ a = Len(t) + 1
           \/ Ch(t, a) = "." /\ b > a + 1 /\ b = Len(t) + 1

\* LEAD_NUM_BULLET.match(t): ^\s*\d+\)
LEAD_NUM_BULLET(t) ==
    LET a == RunEnd(t, 1, WS)
        b == RunEnd(t, a, Digit)
    IN  b > a /\ Ch(t, b) = ")"

\* SECTION_ANY_RE matches at position i: \b\d+(\.\d+)+\s
SectionAt(t, i) ==
    /\ Ch(t, i) \in Digit
    /\ WordBoundary(t, i)
    /\ DottedEnd(t, i) > 0
    /\ Ch(t, DottedEnd(t, i)) \in WS

\* the position of the leftmost match at or after i, 0: none
RECURSIVE SectionFrom(_, _)
SectionFrom(t, i) ==
    IF i > Len(t) THEN 0
    ELSE IF SectionAt(t, i) THEN i
    ELSE SectionFrom(t, i + 1)

\* SECTION_ANY_RE.search(t): the position of the leftmost match, 0: none
SECTION_ANY_RE(t) == SectionFrom(t, 1)

\* txt.split(":", 1)[0] + ":" for a text with a colon and more than 5 words
_shorten_after_colon(txt) ==
    IF Contains(txt, ":") /\ Len(Split(txt)) > 5
    THEN SubSeq(txt, 1, CHOOSE i \in 1..Len(txt) :
                           Ch(txt, i) = ":" /\ ~Contains(SubSeq(txt, 1, i - 1), ":"))
    ELSE txt

\* the "obvious skips" of filter_spans
obvious_skip(s, stop, title_n, pcnt) ==
    \/ pcnt > 1 /\ s.page = 1
    \/ LET n == norm(s.text) IN n = title_n \/ n \in stop
    \/ looks_like_date(s.text)
    \/ looks_like_dot_leader(s.text)
    \/ NUM_ONLY_RE(Strip(s.text))
    \/ LEAD_NUM_BULLET(s.text)

\* mutant: the length rules come before the numbered-heading rule
filter_line_length_first(s, stop, title_n, pcnt) ==
    LET txt == s.text
        m   == SECTION_ANY_RE(txt)
        skip == [kept |-> <<>>, self |-> s]
        own  == [s EXCEPT !.text = _shorten_after_colon(txt)]
    IN  IF obvious_skip(s, stop, title_n, pcnt) THEN skip
        ELSE IF EndsWith(Strip(txt), ".") /\ Len(Split(txt)) > 8 THEN skip
        ELSE IF Len(Split(txt)) > 18 THEN skip
        ELSE IF m > 1
             THEN [kept |-> <<[s EXCEPT !.text =
                                  _shorten_after_colon(LStrip(From(txt, m)))]>>,
                   self |-> s]
        ELSE [kept |-> <<own>>, self |-> own]

\* one iteration of the loop of filter_spans: what is appended to kept, and
\* the span itself afterwards (s.text is assigned in place)
filter_line(s, stop, title_n, pcnt) ==
    LET txt == s.text
        m   == SECTION_ANY_RE(txt)
        skip == [kept |-> <<>>, self |-> s]
        own  == [s EXCEPT !.text = _shorten_after_colon(txt)]
    IN  IF obvious_skip(s, stop, title_n, pcnt) THEN skip
        ELSE IF m > 1
             THEN [kept |-> <<[s EXCEPT !.text =
                                  _shorten_after_colon(LStrip(From(txt, m)))]>>,
                   self |-> s]
        ELSE IF m = 1 THEN [kept |-> <<own>>, self |-> own]
        ELSE IF EndsWith(Strip(txt), ".") /\ Len(Split(txt)) > 8 THEN skip
        ELSE IF Len(Split(txt)) > 18 THEN skip
        ELSE [kept |-> <<own>>, self |-> own]

\* [norm(s.text) for s in sps]
RECURSIVE NormTexts(_)
NormTexts(sps) ==
    IF sps = <<>> THEN <<>> ELSE <<norm(sps[1].text)>> \o NormTexts(Tail(sps))

\* the loop of filter_spans from sps on: the list returned, and sps afterwards
RECURSIVE FilterLoop(_, _, _, _)
FilterLoop(sps, stop, title_n, pcnt) ==
    IF sps = <<>>
    THEN [kept |-> <<>>, spans |-> <<>>]
    ELSE LET r    == filter_line(sps[1], stop, title_n, pcnt)
             rest == FilterLoop(Tail(sps), stop, title_n, pcnt)
         IN  [kept |-> r.kept \o rest.kept, spans |-> <<r.self>> \o rest.spans]

\* filter_spans(sps, ttl, pcnt): the list returned, and sps after the call
filter_spans(sps, ttl, pcnt) ==
    FilterLoop(sps, build_header_footer_stopset(NormTexts(sps), pcnt), norm(ttl), pcnt)

\* process: spans_flt = filter_spans(spans, title, page_cnt)
Filter ==
    /\ pc = "filter"
    /\ spans_in' = spans
    /\ LET r == filter_spans(spans, title, page_cnt)
       IN  /\ spans_flt' = r.kept
           /\ spans' = r.spans
    /\ pc' = "classify"
    /\ UNCHANGED <<page_cnt, title, invite, headings_raw, data>>
    /\ UNCHANGED <<mergeVars, mainVars>>

---------------------------------------------------------------------------
(* features.py: build_matrix; classify.py: predict_headings                *)

\* n * font_size - sum of the font sizes: n times the distance to the mean
SizeDev(sps, i) ==
    Len(sps) * sps[i].font_size - SumSeq([k \in 1..Len(sps) |-> sps[k].font_size])

\* X[:, 0] >= 0.5 : the z-scored font size (x - mean) / (std + 1e-6) is at
\* least 0.5, that is x > mean and 4 * n * (n*x - sum)^2 > sum of (n*x_j - sum)^2
big_font(sps, i) ==
    /\ SizeDev(sps, i) > 0
    /\ 4 * Len(sps) * SizeDev(sps, i) * SizeDev(sps, i)
          > SumSeq([k \in 1..Len(sps) |-> SizeDev(sps, k) * SizeDev(sps, k)])

\* keep_ml = (probs >= 0.45) | (X[:, 0] >= 0.5).  The logistic score is a
\* float32 product of the six features: a line without a big font may score
\* on either side of 0.45, so every vector that keeps the big fonts is a
\* possible keep_ml.
KeepVectors(sps) ==
    { kv \in [1..Len(sps) -> BOOLEAN] : \A i \in 1..Len(sps) : big_font(sps, i) => kv[i] }

\* cand: the kept lines, then the lines not kept that hold a numbered section
predict_cand(sps, keep_ml) ==
    SelectKept(sps, keep_ml)
        \o SelectKept(sps, [i \in 1..Len(sps) |->
                              ~keep_ml[i] /\ SECTION_ANY_RE(sps[i].text) > 0])

\* k = min(4, np.unique(sizes).size)
ClusterCount(cand) == Min2(4, Cardinality({cand[i].font_size : i \in 1..Len(cand)}))

\* KMeans(n_clusters=k).fit_predict(sizes): every line gets the label of its
\* nearest centre, so in one dimension each cluster is a range of sizes: equal
\* sizes share a label and no size lies between two sizes of another cluster.
\* Every cluster holds a line; which number a cluster gets is arbitrary.
KMeansLabels(cand, k) ==
    { lab \in [1..Len(cand) -> 0..(k - 1)] :
        /\ \A c \in 0..(k - 1) : \E i \in 1..Len(cand) : lab[i] = c
        /\ \A i, j, m \in 1..Len(cand) :
              (lab[i] = lab[j] /\ cand[i].font_size <= cand[m].font_size
                               /\ cand[m].font_size <= cand[j].font_size)
                  => lab[m] = lab[i] }

\* sizes[labels == c].sum() and the number of lines of cluster c
ClusterSum(cand, lab, c) ==
    SumSeq([i \in 1..Len(cand) |-> IF lab[i] = c THEN cand[i].font_size ELSE 0])
ClusterSize(cand, lab, c) ==
    SumSeq([i \in 1..Len(cand) |-> IF lab[i] = c THEN 1 ELSE 0])

\* means[a] < means[b] for the negated means: cluster a has the larger mean
MeanAbove(cand, lab, a, b) ==
    ClusterSum(cand, lab, a) * ClusterSize(cand, lab, b)
        > ClusterSum(cand, lab, b) * ClusterSize(cand, lab, a)

\* mutant: the clusters ordered by ascending mean
cluster_rank_ascending(cand, lab, k, c) ==
    Cardinality({a \in 0..(k - 1) : MeanAbove(cand, lab, c, a)})

\* idx: the place of cluster c in order = np.argsort(means)
cluster_rank(cand, lab, k, c) ==
    Cardinality({a \in 0..(k - 1) : MeanAbove(cand, lab, a, c)})

\* abs(means[cl] - h1_mean) < 0.2, on the means in tenths of a point
near_h1(cand, lab, k, c) ==
    LET h1 == CHOOSE a \in 0..(k - 1) : cluster_rank(cand, lab, k, a) = 0
    IN  Abs(ClusterSum(cand, lab, c) * ClusterSize(cand, lab, h1)
              - ClusterSum(cand, lab, h1) * ClusterSize(cand, lab, c))
          < 2 * ClusterSize(cand, lab, c) * ClusterSize(cand, lab, h1)

LevelNames == <<"H1", "H2", "H3", "H4", "H5", "H6">>

\* level_map[cl]
level_map(cand, lab, k, c) ==
    IF near_h1(cand, lab, k, c)
    THEN "H1"
    ELSE LevelNames[cluster_rank(cand, lab, k, c) + 1]

\* s.text.split(" ")[0]
RECURSIVE FirstField(_)
FirstField(t) ==
    IF t = "" \/ Ch(t, 1) = " " THEN "" ELSE Ch(t, 1) \o FirstField(From(t, 2))

\* the dotted-number fallback: s.text.split(" ")[0].count(".") + 1, at most 6
dotted_depth(s) == LevelNames[Min2(CountIn(FirstField(s.text), {"."}) + 1, 6)]

\* cand after the two loops that assign s.level
assign_levels(cand, lab, k) ==
    [i \in 1..Len(cand) |->
        LET leveled == [cand[i] EXCEPT !.level = level_map(cand, lab, k, lab[i])]
        IN  IF leveled.level = NoLevel
            THEN [leveled EXCEPT !.level = dotted_depth(leveled)]
            ELSE leveled]

\* the lists predict_headings(sps) may return
predict_headings(sps) ==
    IF sps = <<>>
    THEN {<<>>}
    ELSE UNION { LET cand == predict_cand(sps, kv)
                 IN  IF cand = <<>>
                     THEN {<<>>}
                     ELSE { assign_levels(cand, lab, ClusterCount(cand)) :
                              lab \in KMeansLabels(cand, ClusterCount(cand)) }
               : kv \in KeepVectors(sps) }

\* process: headings_raw = predict_headings(spans_flt).  build_matrix divides
\* by len(s.text): a candidate with an empty text raises ZeroDivisionError.
Classify ==
    /\ pc = "classify"
    /\ IF \E i \in 1..Len(spans_flt) : spans_flt[i].text = ""
       THEN /\ pc' = "crashed"
            /\ UNCHANGED headings_raw
       ELSE /\ headings_raw' \in predict_headings(spans_flt)
            /\ pc' = "override"
    /\ UNCHANGED <<spans, page_cnt, title, invite, spans_flt, data, spans_in>>
    /\ UNCHANGED <<mergeVars, mainVars>>

---------------------------------------------------------------------------
(* assemble.py: build_outline                                              *)

\* headings.sort(key=lambda s: (s.page, s.bbox[1], s.bbox[0]))
SortReadingOrder(hs) ==
    Items(SortKeyed([k \in 1..Len(hs) |->
                        <<<<hs[k].page, Y0(hs[k]), X0(hs[k])>>, hs[k]>>]))

\* mutant: the page offset without its floor of 1
logical_page_no_floor(h, pcnt) ==
    IF pcnt = 1 THEN 0 ELSE h.page - 1

\* logical = 0 if single_page else max(1, h.page - 1)
logical_page(h, pcnt) ==
    IF pcnt = 1 THEN 0 ELSE Max2(1, h.page - 1)

build_outline(hs, pcnt) ==
    LET sorted == SortReadingOrder(hs)
    IN  [k \in 1..Len(sorted) |->
            [level |-> sorted[k].level,
             text  |-> Strip(sorted[k].text),
             page  |-> logical_page(sorted[k], pcnt)]]

\* data = {"title": title, "outline": build_outline(headings_raw, page_cnt)}
BuildOutline ==
    /\ pc = "assemble"
    /\ data' = [title |-> title, outline |-> build_outline(headings_raw, page_cnt)]
    /\ pc' = "built"
    /\ UNCHANGED <<spans, page_cnt, title, invite, spans_flt, headings_raw, spans_in>>
    /\ UNCHANGED <<mergeVars, mainVars>>

\* the variables of _merge_line_spans, at rest
MergeIdle ==
    /\ raw = <<>>
    /\ buf = NoSpan
    /\ merged = <<>>
    /\ bufRuns = <<>>
    /\ mergedRuns = <<>>
    /\ step = NoStep
    /\ mpc = "idle"

---------------------------------------------------------------------------
(* extract.py: extract_spans; runner.py: the overrides, process and main   *)

\* a raw text run as the rendering engine reports it
Run(text, page, x0, y0, x1, size) ==
    Span(text, page, <<x0, y0, x1, y0 + size \div 10>>, size)

\* the runs of a page with txt = s["text"].strip(), those with an empty txt
\* dropped
page_raw(runs) ==
    SelectKept([k \in 1..Len(runs) |-> [runs[k] EXCEPT !.text = Strip(runs[k].text)]],
               [k \in 1..Len(runs) |-> Strip(runs[k].text) # ""])

\* _ocr_page on page i: one Span of the recognised text, font size 0, with the
\* box of the page image at 150 dpi
_ocr_page(txt, i) == <<Span(Strip(txt), i, <<0, 0, 1275, 1650>>, 0)>>

\* the Lines of the pages from i on
RECURSIVE extract_pages(_, _)
extract_pages(pages, i) ==
    IF i > Len(pages)
    THEN <<>>
    ELSE (IF pages[i].scanned
          THEN _ocr_page(pages[i].ocr, i)
          ELSE _merge_line_spans(SortReadingOrder(page_raw(pages[i].runs))))
         \o extract_pages(pages, i + 1)

extract_spans(doc) == extract_pages(doc.pages, 1)

\* the candidates of _pick_bottom_callout_heading, in the order of spans
callout_ok(s) ==
    LET txt   == Strip(s.text)
        alpha == CountIn(s.text, Alpha)
    IN  /\ s.page = 1
        /\ 5 * (Y0(s) + Y1(s)) >= 6 * PAGE_HEIGHT
        /\ ~Contains(LowerStr(txt), "www.")
        /\ ~Contains(LowerStr(txt), ".com")
        /\ Len(Split(s.text)) <= 8
        /\ \/ EndsWith(txt, "!")
           \/ alpha > 0 /\ 10 * CountIn(s.text, Upper) >= 6 * alpha

callout_cands(sps) == SelectKept(sps, [k \in 1..Len(sps) |-> callout_ok(sps[k])])

\* mutant: the first candidate instead of the best one
callout_first(cand) == cand[1]

\* max(cand, key=lambda s: (s.font_size, s.bbox[1])): the first of the
\* candidates with the largest key
callout_best(cand) ==
    cand[CHOOSE k \in 1..Len(cand) :
            /\ \A j \in 1..Len(cand) :
                  ~LexLess(<<cand[k].font_size, Y0(cand[k])>>,
                           <<cand[j].font_size, Y0(cand[j])>>)
            /\ \A j \in 1..(k - 1) :
                  LexLess(<<cand[j].font_size, Y0(cand[j])>>,
                          <<cand[k].font_size, Y0(cand[k])>>)]

\* mutant: the pick returned without its level
pick_without_level(sps) ==
    IF callout_cands(sps) = <<>> THEN <<>> ELSE <<callout_best(callout_cands(sps))>>

\* the pick as a list: empty for None
_pick_bottom_callout_heading(sps) ==
    IF callout_cands(sps) = <<>>
    THEN <<>>
    ELSE <<[callout_best(callout_cands(sps)) EXCEPT !.level = "H1"]>>

\* sorted(spans, key=lambda s: -s.font_size)[:2], leveled H1 and H2, sorted by
\* (top, left)
_flyer_headings(sps) ==
    LET by_size == Items(SortKeyed([k \in 1..Len(sps) |-> <<<<-sps[k].font_size>>, sps[k]>>]))
        top2    == SubSeq(by_size, 1, Min2(2, Len(by_size)))
        leveled == [k \in 1..Len(top2) |-> [top2[k] EXCEPT !.level = LevelNames[k]]]
    IN  Items(SortKeyed([k \in 1..Len(leveled) |->
                           <<<<Y0(leveled[k]), X0(leveled[k])>>, leveled[k]>>]))

\* main: the next pdf of the sorted listing; process: spans = extract_spans(pdf)
\* and page_cnt = max(s.page for s in spans).  fitz.open raises on an unreadable
\* file and max() raises ValueError on no spans; main catches nothing.
Extract ==
    /\ pc = "idle"
    /\ queue # <<>>
    /\ IF ~Head(queue).readable
       THEN /\ pc' = "crashed"
            /\ UNCHANGED <<spans, page_cnt>>
       ELSE /\ spans' = extract_spans(Head(queue))
            /\ IF spans' = <<>>
               THEN /\ pc' = "crashed"
                    /\ UNCHANGED page_cnt
               ELSE /\ page_cnt' = MaxOf({spans'[k].page : k \in 1..Len(spans')})
                    /\ pc' = "title"
    /\ title' = ""
    /\ invite' = FALSE
    /\ spans_flt' = <<>>
    /\ headings_raw' = <<>>
    /\ data' = NoData
    /\ spans_in' = <<>>
    /\ UNCHANGED <<mergeVars, mainVars>>

\* process: the invitation callout override and the single-page flyer fallback
Override ==
    /\ pc = "override"
    /\ LET pick    == IF invite THEN _pick_bottom_callout_heading(spans) ELSE <<>>
           picked  == IF pick # <<>> THEN pick ELSE headings_raw
       IN  headings_raw' = IF page_cnt = 1 /\ picked = <<>> /\ title = ""
                           THEN _flyer_headings(spans_flt)
                           ELSE picked
    /\ pc' = "assemble"
    /\ UNCHANGED <<spans, page_cnt, title, invite, spans_flt, data, spans_in>>
    /\ UNCHANGED <<mergeVars, mainVars>>

\* the output schema: title a string, outline a list of entries whose level is
\* one of H1..H6 and whose page is a non-negative integer
SchemaValid(d) ==
    /\ d.title \in STRING
    /\ \A k \in 1..Len(d.outline) :
          /\ d.outline[k].level \in {"H1", "H2", "H3", "H4", "H5", "H6"}
          /\ d.outline[k].text \in STRING
          /\ d.outline[k].page \in Nat

\* process: validate(instance=data, schema=...) and then out_path.write_bytes;
\* a ValidationError leaves process and main before the file is written
Write ==
    /\ pc = "built"
    /\ queue # <<>>
    /\ IF SchemaValid(data)
       THEN /\ written' = Append(written, [doc |-> Head(queue).name, data |-> data])
            /\ queue' = Tail(queue)
            /\ pc' = "idle"
       ELSE /\ pc' = "crashed"
            /\ UNCHANGED <<queue, written>>
    /\ UNCHANGED <<spans, page_cnt, title, invite, spans_flt, headings_raw, data, spans_in>>
    /\ UNCHANGED mergeVars

---------------------------------------------------------------------------
(* build_outline on every heading list and page count                      *)

MaxHeadings == 2
MaxPage == 3

Levels == {"H1", "H2", "H3", "H4", "H5", "H6"}

HeadingTexts == {"Intro", " 2.1 Scope "}
HeadingTops == {100, 300}

Leveled(s, lvl) == [s EXCEPT !.level = lvl]

HeadingPool(pcnt) ==
    { Leveled(Span(t, p, <<72, y, 300, y + 14>>, 140), lvl) :
        t \in HeadingTexts, p \in 1..pcnt, y \in HeadingTops, lvl \in {"H1", "H2"} }

OutlineInit ==
    /\ MergeIdle
    /\ spans = <<>>
    /\ title = ""
    /\ invite = FALSE
    /\ spans_flt = <<>>
    /\ data = NoData
    /\ spans_in = <<>>
    /\ queue = <<>>
    /\ written = <<>>
    /\ page_cnt \in 1..MaxPage
    /\ \E n \in 0..MaxHeadings : headings_raw \in [1..n -> HeadingPool(page_cnt)]
    /\ pc = "assemble"

OutlineNext == BuildOutline

SpecOutline == OutlineInit /\ [][OutlineNext]_vars

\* the entry e is the entry of heading h
EntryOf(e, h) ==
    /\ e.text = Strip(h.text)
    /\ e.level = h.level
    /\ e.page = IF page_cnt = 1 THEN 0
                ELSE IF h.page - 1 >= 1 THEN h.page - 1 ELSE 1

\* C1: in a one-page document every entry has page 0; in a document of 2 or
\* more pages every entry has page max(1, physical page - 1), never 0.
C1_LogicalPages ==
    pc = "built" =>
        /\ Len(data.outline) = Len(headings_raw)
        /\ \A k \in 1..Len(data.outline) :
              /\ \E j \in 1..Len(headings_raw) : EntryOf(data.outline[k], headings_raw[j])
              /\ page_cnt = 1 => data.outline[k].page = 0
              /\ page_cnt >= 2 => data.outline[k].page >= 1
        /\ \A j \in 1..Len(headings_raw) :
              \E k \in 1..Len(data.outline) : EntryOf(data.outline[k], headings_raw[j])

\* a document of several pages with a heading on physical page 1 and one on
\* a later page has been assembled
C1_Witness ==
    /\ pc = "built"
    /\ page_cnt >= 3
    /\ \E j \in 1..Len(headings_raw) : headings_raw[j].page = 1
    /\ \E j \in 1..Len(headings_raw) : headings_raw[j].page = 3
    /\ \E k \in 1..Len(data.outline) : data.outline[k].page = 2

---------------------------------------------------------------------------
(* detect_title on the Lines of a cover page                               *)

MaxTitleLines == 3

\* <<text, font size>>
CoverLines == {<<"ANNUAL REPORT", 240>>, <<"Fiscal Year 2023", 140>>,
               <<"Fiscal Year 2023 Annual Review", 140>>,
               <<"Prepared for the Board of Directors", 100>>,
               <<"18 JUNE 2013", 140>>}
CoverTops == {100, 150, 400}

CoverPool ==
    { Span(c[1], 1, <<72, y, 400, y + c[2] \div 10>>, c[2]) :
        c \in CoverLines, y \in CoverTops }

\* the Lines of one page as extract_spans returns them: in reading order
InReadingOrder(sps) ==
    \A k \in 1..(Len(sps) - 1) : SortKeyLeq(sps[k], sps[k + 1])

TitleInit ==
    /\ MergeIdle
    /\ \E n \in 1..MaxTitleLines :
          /\ spans \in [1..n -> CoverPool]
          /\ InReadingOrder(spans)
    /\ page_cnt = 1
    /\ title = ""
    /\ invite = FALSE
    /\ spans_flt = <<>>
    /\ headings_raw = <<>>
    /\ data = NoData
    /\ spans_in = <<>>
    /\ queue = <<>>
    /\ written = <<>>
    /\ pc = "title"

TitleNext == DetectTitle

SpecTitle == TitleInit /\ [][TitleNext]_vars

\* the page holds "ANNUAL REPORT" at 24pt and, below it within the 240pt
\* window, the line sub at 14pt, and nothing else
CoverWith(sub) ==
    /\ Len(spans) = 2
    /\ spans[1].text = "ANNUAL REPORT" /\ spans[1].font_size = 240
    /\ spans[2].text = sub /\ spans[2].font_size = 140
    /\ Y0(spans[2]) > Y0(spans[1])
    /\ Y0(spans[2]) - Y0(spans[1]) <= GAP_MAX

\* C4 as stated: "ANNUAL REPORT" at 24pt followed by "Fiscal Year 2023" at 14pt
\* gives the title "ANNUAL REPORT Fiscal Year 2023".
C4_SubtitleAppended ==
    (pc = "filter" /\ CoverWith("Fiscal Year 2023")) =>
        title = "ANNUAL REPORT Fiscal Year 2023"

\* C4 amended: a subtitle is appended only if it also has 4 to 30 words;
\* "Fiscal Year 2023" has 3, so the title is "ANNUAL REPORT", while the 5-word
\* "Fiscal Year 2023 Annual Review" is appended (its repeated token dropped).
C4_SubtitleNeedsFourWords ==
    /\ (pc = "filter" /\ CoverWith("Fiscal Year 2023")) =>
          title = "ANNUAL REPORT"
    /\ (pc = "filter" /\ CoverWith("Fiscal Year 2023 Annual Review")) =>
          title = "ANNUAL REPORT Fiscal Year 2023 Review"

C4_Witness ==
    /\ pc = "filter"
    /\ CoverWith("Fiscal Year 2023")
    /\ title = "ANNUAL REPORT"

---------------------------------------------------------------------------
(* filter_spans on the Lines of a document                                 *)

MaxFilterLines == 3

\* a numbered heading, one behind a running header, a numbered sentence of 9
\* words, a body sentence of 9 words, a numbered line with a date, a heading
FilterTexts == {"3.2 Methodology",
                "Report 3.2 Scope",
                "3.3 We set it up so it is ok.",
                "Now we set it up so it is ok.",
                "3.4 On 18 JUNE 2013",
                "Intro"}
\* the Lines of the cover page
FilterCoverTexts == {"3.2 Methodology", "Intro"}
\* the later physical pages: a second page, and a fifth page, the first page
\* count whose stop-set cutoff is above 1
FilterPages == {2, 5}

FilterPool ==
    { Span(t, 1, <<72, 100, 400, 112>>, 120) : t \in FilterCoverTexts }
    \cup { Span(t, p, <<72, 100, 400, 112>>, 120) : t \in FilterTexts, p \in FilterPages }

FilterInit ==
    /\ MergeIdle
    /\ \E n \in 1..MaxFilterLines :
          /\ spans \in [1..n -> FilterPool]
          /\ InReadingOrder(spans)
    /\ page_cnt = MaxOf({spans[k].page : k \in 1..Len(spans)})
    /\ title = ""
    /\ invite = FALSE
    /\ spans_flt = <<>>
    /\ headings_raw = <<>>
    /\ data = NoData
    /\ spans_in = <<>>
    /\ queue = <<>>
    /\ written = <<>>
    /\ pc = "title"

FilterNext == DetectTitle \/ Filter

SpecFilter == FilterInit /\ [][FilterNext]_vars

\* the Line s has a numbered-section pattern
Numbered(s) == SECTION_ANY_RE(s.text) > 0

\* s, with its text from the match onward (shortened after its first colon
\* when it has more than 5 words), is among the candidates
Retained(s) ==
    \E j \in 1..Len(spans_flt) :
        /\ spans_flt[j].page = s.page
        /\ spans_flt[j].bbox = s.bbox
        /\ spans_flt[j].text \in
              {s.text, From(s.text, SECTION_ANY_RE(s.text)),
               _shorten_after_colon(From(s.text, SECTION_ANY_RE(s.text)))}

\* the first-stage rules of filter_spans reject s
EarlyReject(s) ==
    \/ page_cnt > 1 /\ s.page = 1
    \/ norm(s.text) = norm(title)
    \/ norm(s.text) \in build_header_footer_stopset(NormTexts(spans_in), page_cnt)
    \/ looks_like_date(s.text)
    \/ looks_like_dot_leader(s.text)
    \/ NUM_ONLY_RE(Strip(s.text))
    \/ LEAD_NUM_BULLET(s.text)

\* a sentence of more than 8 words, or a text of more than 18 words
TooLong(s) ==
    \/ EndsWith(Strip(s.text), ".") /\ Len(Split(s.text)) > 8
    \/ Len(Split(s.text)) > 18

---------------------------------------------------------------------------
(* predict_headings on the candidates of a document                        *)

MaxCandLines == 3

CandTexts == {"Intro", "2.1 Scope"}
\* tenths of a point: 13.9 and 14.0 are closer than the 0.2 of the H1 band
CandSizes == {100, 120, 139, 140}

CandPool == { Span(t, 2, <<72, 100, 400, 114>>, f) : t \in CandTexts, f \in CandSizes }

ClassifyInit ==
    /\ MergeIdle
    /\ spans = <<>>
    /\ page_cnt = 5
    /\ title = ""
    /\ invite = FALSE
    /\ \E n \in 0..MaxCandLines : spans_flt \in [1..n -> CandPool]
    /\ headings_raw = <<>>
    /\ data = NoData
    /\ spans_in = <<>>
    /\ queue = <<>>
    /\ written = <<>>
    /\ pc = "classify"

ClassifyNext == Classify

SpecClassify == ClassifyInit /\ [][ClassifyNext]_vars

LargestKept ==
    MaxOf({headings_raw[i].font_size : i \in 1..Len(headings_raw)})

\* C9: after predict_headings, every kept candidate whose raw font size is the
\* largest of the kept candidates has level H1.
C9_LargestIsH1 ==
    pc = "override" =>
        \A i \in 1..Len(headings_raw) :
            headings_raw[i].font_size = LargestKept => headings_raw[i].level = "H1"

\* three levels were assigned, and the largest candidate is a numbered line
\* that is not of the smallest size
C9_Witness ==
    /\ pc = "override"
    /\ {headings_raw[i].level : i \in 1..Len(headings_raw)} = {"H1", "H2", "H3"}
    /\ \E i \in 1..Len(headings_raw) :
          /\ headings_raw[i].font_size = LargestKept
          /\ SECTION_ANY_RE(headings_raw[i].text) > 0
          /\ headings_raw[i].level = "H1"

---------------------------------------------------------------------------
(* main over a batch of documents                                          *)

MaxDocs == 2

\* a page of text runs, and a scanned page with the text OCR reads from it
TextPage(runs) == [scanned |-> FALSE, ocr |-> "", runs |-> runs]
ScanPage(txt)  == [scanned |-> TRUE, ocr |-> txt, runs |-> <<>>]

CorruptDoc == [readable |-> FALSE, pages |-> <<>>]
\* one page whose only run is white space
BlankDoc == [readable |-> TRUE, pages |-> <<TextPage(<<Run(" ", 1, 72, 100, 80, 120)>>)>>]
\* one page, no invitation fields
MemoDoc ==
    [readable |-> TRUE,
     pages |-> <<TextPage(<<Run("Team Memo", 1, 72, 100, 300, 240),
                            Run("COME ALONG!", 1, 72, 600, 300, 180)>>)>>]

\* the two field lines of an invitation, and the lines a flyer may add
FlyerFields ==
    <<Run("RSVP: Ann", 1, 72, 100, 200, 120), Run("Date: 5 May", 1, 72, 130, 200, 120)>>
FlyerExtras ==
    << <<Run("You're", 1, 72, 600, 150, 240), Run("Invited!", 1, 160, 600, 300, 240)>>,
       <<Run("BE THERE", 1, 72, 650, 200, 240)>>,
       <<Run("WWW.FUN.COM!", 1, 72, 700, 300, 300)>>,
       <<Run("See you!", 1, 72, 300, 200, 360)>> >>

\* the extras of the set picked, the last first, as the engine may report them
RECURSIVE ExtrasOf(_)
ExtrasOf(picked) ==
    IF picked = {} THEN <<>>
    ELSE FlyerExtras[MaxOf(picked)] \o ExtrasOf(picked \ {MaxOf(picked)})

FlyerDocs ==
    { [readable |-> TRUE, pages |-> <<TextPage(ExtrasOf(picked) \o FlyerFields)>>] :
        picked \in {p \in SUBSET (1..4) : Cardinality(p) <= 2} }

Footer(i) == Run("ACME Corp", i, 72, 750, 200, 100)

\* five pages: a cover, three headings, a short sentence, a running footer
ReportDoc(page3) ==
    [readable |-> TRUE,
     pages |-> <<TextPage(<<Run("Annual Report", 1, 72, 100, 400, 240)>>),
                 TextPage(<<Footer(2), Run("1.1 Scope", 2, 72, 100, 300, 160)>>),
                 page3,
                 TextPage(<<Run("Plan", 4, 110, 100, 200, 139),
                            Run("2.1", 4, 72, 100, 100, 139), Footer(4)>>),
                 TextPage(<<Run("We did it all.", 5, 72, 300, 400, 100), Footer(5)>>)>>]

\* five pages with nothing but the cover and the footer
FooterDoc ==
    [readable |-> TRUE,
     pages |-> <<TextPage(<<Run("Annual Report", 1, 72, 100, 400, 240)>>)>>
               \o [i \in 1..4 |-> TextPage(<<Footer(i + 1)>>)]]

DocPool ==
    {CorruptDoc, BlankDoc, MemoDoc, FooterDoc,
     ReportDoc(TextPage(<<Run("Methods", 3, 72, 100, 300, 140), Footer(3)>>)),
     ReportDoc(ScanPage(""))}
        \cup FlyerDocs

\* the batch: sorted(in_dir.glob("*.pdf")); a document is named by its place
Init ==
    /\ MergeIdle
    /\ spans = <<>>
    /\ page_cnt = 0
    /\ title = ""
    /\ invite = FALSE
    /\ spans_flt = <<>>
    /\ headings_raw = <<>>
    /\ data = NoData
    /\ spans_in = <<>>
    /\ pc = "idle"
    /\ written = <<>>
    /\ \E n \in 0..MaxDocs :
          \E batch \in [1..n -> DocPool] :
              queue = [k \in 1..n |-> [name     |-> k,
                                       readable |-> batch[k].readable,
                                       pages    |-> batch[k].pages]]

Next ==
    \/ Extract
    \/ DetectTitle
    \/ Filter
    \/ Classify
    \/ Override
    \/ BuildOutline
    \/ Write

Spec == Init /\ [][Next]_vars

\* C6: when extraction fails on a document the run stops there with no record
\* for it, and no other document is affected: none that can be read is left
\* without its record.
C6_FailureSkipsOneDocument ==
    (pc = "crashed" /\ queue # <<>> /\ ~Head(queue).readable) =>
        /\ \A k \in 1..Len(written) : written[k].doc # Head(queue).name
        /\ \A k \in 2..Len(queue) : ~queue[k].readable

\* C7: a readable document with no TextRuns, or with no candidate after the
\* filter, does not make process fail.
C7_EmptyInputCompletes ==
    (queue # <<>> /\ Head(queue).readable
        /\ (spans = <<>> \/ (pc \notin {"title", "filter"} /\ spans_flt = <<>>)))
      => pc # "crashed"

\* the Lines of the document being processed, as extracted
CurLines == extract_spans(Head(queue))

InviteFlyer ==
    /\ queue # <<>>
    /\ Head(queue).readable
    /\ Len(Head(queue).pages) = 1
    /\ Cardinality({k \in 1..Len(CurLines) :
                       /\ CurLines[k].page = 1
                       /\ \E key \in INVITE_KEYS :
                             StartsWith(LowerStr(Strip(CurLines[k].text)), key)}) >= 2
    /\ \E k \in 1..Len(CurLines) : callout_ok(CurLines[k])

\* C8: for a single-page invitation flyer with a callout, process does not
\* fail, and the record it builds has title "" and an outline of exactly one
\* entry: H1, page 0, the trimmed text of a callout of the largest font size,
\* the lowest on the page among those.
C8_InviteCallout ==
    /\ (pc = "crashed" /\ queue # <<>>) => ~InviteFlyer
    /\ (pc = "built" /\ InviteFlyer) =>
          /\ data.title = ""
          /\ \E k \in 1..Len(CurLines) :
                /\ callout_ok(CurLines[k])
                /\ \A j \in 1..Len(CurLines) :
                      callout_ok(CurLines[j]) =>
                          \/ CurLines[j].font_size < CurLines[k].font_size
                          \/ /\ CurLines[j].font_size = CurLines[k].font_size
                             /\ Y0(CurLines[j]) <= Y0(CurLines[k])
                /\ data.outline = <<[level |-> "H1",
                                     text  |-> Strip(CurLines[k].text),
                                     page  |-> 0]>>

\* a flyer with two callouts and with a larger line that is no callout
C8_Witness ==
    /\ pc = "built"
    /\ InviteFlyer
    /\ \E j, k \in 1..Len(CurLines) :
          /\ callout_ok(CurLines[j]) /\ ~callout_ok(CurLines[k])
          /\ CurLines[k].font_size > CurLines[j].font_size
    /\ Len(written) = 1
    /\ data.outline # <<>>

OutputContract(d) ==
    /\ d.title \in STRING
    /\ \A k \in 1..Len(d.outline) :
          /\ d.outline[k].level \in {"H1", "H2", "H3", "H4", "H5", "H6"}
          /\ d.outline[k].page \in Nat

\* C10: the record process builds, on every path that produces headings, and
\* every record written satisfy the output contract: a string title, every
\* level one of H1..H6 and every page a non-negative integer.
C10_RecordsValid ==
    /\ pc = "built" => OutputContract(data)
    /\ \A k \in 1..Len(written) : OutputContract(written[k].data)

\* a written record leveled by the classifier and one built from a callout
C10_Witness ==
    /\ pc = "built"
    /\ invite
    /\ data.outline # <<>>
    /\ \E k \in 1..Len(written) :
          {written[k].data.outline[j].level : j \in 1..Len(written[k].data.outline)}
              = {"H1", "H2", "H3"}

---------------------------------------------------------------------------
(* the header/footer rule of filter_spans on documents of few pages        *)

MaxStopLines == 3
MaxStopPage == 4

\* a heading and a running footer, plain texts no other rule rejects
StopTexts == {"Intro", "ACME Corp"}

StopPool ==
    { Span(t, p, <<72, y, 400, y + 12>>, 120) :
        t \in StopTexts, p \in 2..MaxStopPage, y \in {100, 750} }

StopInit ==
    /\ MergeIdle
    /\ \E n \in 1..MaxStopLines :
          /\ spans \in [1..n -> StopPool]
          /\ InReadingOrder(spans)
    /\ page_cnt = MaxOf({spans[k].page : k \in 1..Len(spans)})
    /\ title = ""
    /\ invite = FALSE
    /\ spans_flt = <<>>
    /\ headings_raw = <<>>
    /\ data = NoData
    /\ spans_in = <<>>
    /\ queue = <<>>
    /\ written = <<>>
    /\ pc = "title"

StopNext == DetectTitle \/ Filter

SpecStop == StopInit /\ [][StopNext]_vars

\* how many Lines of the document have the normalized text of s
Occurrences(s) ==
    Cardinality({k \in 1..Len(spans_in) : norm(spans_in[k].text) = norm(s.text)})

\* a rule of filter_spans other than the header/footer rule rejects s
OtherReject(s) ==
    \/ page_cnt > 1 /\ s.page = 1
    \/ norm(s.text) = norm(title)
    \/ looks_like_date(s.text)
    \/ looks_like_dot_leader(s.text)
    \/ NUM_ONLY_RE(Strip(s.text))
    \/ LEAD_NUM_BULLET(s.text)
    \/ (~Numbered(s) /\ TooLong(s))

\* s is among the candidates, its text as it was or cut by the filter
AmongCandidates(s) ==
    \E j \in 1..Len(spans_flt) :
        /\ spans_flt[j].page = s.page
        /\ spans_flt[j].bbox = s.bbox
        /\ \E i \in 1..Len(s.text) :
              spans_flt[j].text \in {From(s.text, i), _shorten_after_colon(From(s.text, i))}

\* C11: a Line whose normalized text occurs fewer times than 40% of the page
\* count is not rejected by the header/footer rule: when no other rule rejects
\* it, it is among the candidates.
C11_RareLineNotStopped ==
    pc = "classify" =>
        \A k \in 1..Len(spans_in) :
            (10 * Occurrences(spans_in[k]) < 4 * page_cnt /\ ~OtherReject(spans_in[k]))
                => AmongCandidates(spans_in[k])

---------------------------------------------------------------------------
(* the level assignment of predict_headings on numbered Lines              *)

\* every Line is numbered, so each is a candidate whatever its score: kept
\* by keep_ml or force-included
LevelTexts == {"1.1 Scope", "2.1 Plan"}

LevelPool == { Span(t, 2, <<72, 100, 400, 114>>, f) : t \in LevelTexts, f \in CandSizes }

LevelsInit ==
    /\ MergeIdle
    /\ spans = <<>>
    /\ page_cnt = 5
    /\ title = ""
    /\ invite = FALSE
    /\ \E n \in 0..MaxCandLines : spans_flt \in [1..n -> LevelPool]
    /\ headings_raw = <<>>
    /\ data = NoData
    /\ spans_in = <<>>
    /\ queue = <<>>
    /\ written = <<>>
    /\ pc = "classify"

LevelsNext == Classify

SpecLevels == LevelsInit /\ [][LevelsNext]_vars

\* the number n of the level Hn of the candidate i
LevelNo(i) == CHOOSE n \in 1..6 : LevelNames[n] = headings_raw[i].level

\* C12: the groups outside the H1 band are labeled H2, H3, ... consecutively by
\* descending mean: no level is skipped, and the largest candidate outside
\* the H1 band is H2.
C12_LevelsConsecutive ==
    pc = "override" =>
        /\ \A i \in 1..Len(headings_raw) :
              LevelNo(i) > 1 =>
                  \E j \in 1..Len(headings_raw) : LevelNo(j) = LevelNo(i) - 1
        /\ \A i \in 1..Len(headings_raw) :
              (/\ LevelNo(i) > 1
               /\ \A j \in 1..Len(headings_raw) :
                     LevelNo(j) > 1 =>
                         headings_raw[j].font_size <= headings_raw[i].font_size)
                  => LevelNo(i) = 2

====
